---- MODULE Spec2Model ----
(***************************************************************************)
(* Model of the evader world loop (evader/model.py), its model objects     *)
(* (evader/objects.py), the aircraft controllers (evader/controller.py)    *)
(* and the geometry helpers (evader/math.py).                              *)
(*                                                                         *)
(* Numbers.  The program computes in floating point.  Here positions,      *)
(* velocities, times and ranges are fixed-point numbers on the integer     *)
(* grid: sums, differences and products are exact, a quotient or a square  *)
(* root that is stored into a vector is rounded toward zero to the grid.   *)
(* A scalar that the code only compares (the clip factor k, a time of      *)
(* flight, a time of minimum distance) is kept as an exact fraction        *)
(* <<num, den>>, den >= 0; den = 0 stands for the IEEE results of a        *)
(* division by 0.0 (num > 0: +inf, num < 0: -inf, num = 0: nan).           *)
(* Distances are only ever compared, so dist is modelled by its square.    *)
(***************************************************************************)
EXTENDS Integers, Sequences, FiniteSets, TLC

\* ------------------------------------------------------------------ bounds
\* Largest modeling ending time tmax passed to Model.run.
MaxTime == 4

\* --------------------------------------------------------------- constants
\* Python's None for an object reference, a time or a return value.
None == -1

\* Model.xlb, Model.xub: the world bounds (xlim, ylim of the demo runner).
xlb == <<0, 0>>
xub == <<100, 100>>

\* AircraftControllerOptimalEvasion.evasion_vel_coeff = 0.9, as a fraction.
evasion_vel_coeff == <<9, 10>>

\* --------------------------------------------------------- vector algebra
Abs(a) == IF a < 0 THEN -a ELSE a

\* a / b rounded toward zero, b > 0.
Quot(a, b) == IF a >= 0 THEN a \div b ELSE -((-a) \div b)

VAdd(a, b) == [j \in 1..Len(a) |-> a[j] + b[j]]
VSub(a, b) == [j \in 1..Len(a) |-> a[j] - b[j]]
VScale(k, a) == [j \in 1..Len(a) |-> k * a[j]]
VZero(a) == [j \in 1..Len(a) |-> 0]
Dot(a, b) == a[1] * b[1] + a[2] * b[2]

\* dist(x, y)^2; dist(x, y) <= r is sqdist(x, y) <= r*r for r >= 0.
sqdist(x, y) == Dot(VSub(x, y), VSub(x, y))

distLE(x, y, r) == r >= 0 /\ sqdist(x, y) <= r * r

\* np.sqrt rounded down to the grid.
RECURSIVE SqrtSearch(_, _, _)
SqrtSearch(n, lo, hi) ==
    IF lo >= hi THEN lo
    ELSE LET mid == (lo + hi + 1) \div 2
         IN  IF mid * mid <= n THEN SqrtSearch(n, mid, hi)
             ELSE SqrtSearch(n, lo, mid - 1)

sqrt(n) == SqrtSearch(n, 0, IF n < 46340 THEN n ELSE 46340)

\* Mutation of abs_dir_clip_k: a component is compared with its bound
\* without the factor found so far.
RECURSIVE abs_dir_clip_k_unscaled(_, _, _, _)
abs_dir_clip_k_unscaled(x, xmax, i, k) ==
    IF i > Len(x) THEN k
    ELSE IF Abs(x[i]) > xmax[i]
         THEN abs_dir_clip_k_unscaled(x, xmax, i + 1, <<xmax[i], Abs(x[i])>>)
         ELSE abs_dir_clip_k_unscaled(x, xmax, i + 1, k)

\* The factor k of abs_dir_clip after scanning components i..len(x),
\* starting from k = <<kn, kd>>.
RECURSIVE abs_dir_clip_k(_, _, _, _)
abs_dir_clip_k(x, xmax, i, k) ==
    IF i > Len(x) THEN k
    ELSE IF k[1] * Abs(x[i]) > xmax[i] * k[2]
         THEN abs_dir_clip_k(x, xmax, i + 1, <<xmax[i], Abs(x[i])>>)
         ELSE abs_dir_clip_k(x, xmax, i + 1, k)

\* Mutation of abs_dir_clip_vec: every component is clipped on its own.
abs_dir_clip_vec_each(x, xmax) ==
    [j \in 1..Len(x) |->
        IF Abs(x[j]) > xmax[j]
        THEN (IF x[j] < 0 THEN -xmax[j] ELSE xmax[j])
        ELSE x[j]]

\* abs_dir_clip(x, xmax) for a vector xmax.
abs_dir_clip_vec(x, xmax) ==
    LET k == abs_dir_clip_k(x, xmax, 1, <<1, 1>>)
    IN  [j \in 1..Len(x) |-> Quot(k[1] * x[j], k[2])]

\* abs_dir_clip(x, xmax) for a real number xmax: xmax = [xmax] * len(x).
abs_dir_clip(x, xmax) == abs_dir_clip_vec(x, [j \in 1..Len(x) |-> xmax])

\* vec_angle([0, 1], direction) > max_angle, both angles in [0, pi].  An
\* angle is given by a vector <<c, s>>, s >= 0, on its ray from the origin:
\* vec_angle([0, 1], v) = atan2(|v[0]|, v[1]) is the angle of <<v[1], |v[0]|>>.
AngleGT(a, b) ==
    LET cr == b[1] * a[2] - b[2] * a[1]
    IN  \/ cr > 0
        \/ cr = 0 /\ Dot(a, b) < 0 /\ a[1] < 0

vec_angle_up(direction) == <<direction[2], Abs(direction[1])>>

\* ------------------------------------------------------- firing_direction
\* A time n/d as a fraction with non-negative denominator.
Frac(n, d) == IF d < 0 THEN <<-n, -d>> ELSE <<n, d>>

FracPos(q) == q[1] > 0

FracLT(p, q) == p[1] * q[2] < q[1] * p[2]

\* Mutation of MinPositive: the first solution with t > 0 is taken.
MinPositive_first(s1, s2) ==
    IF FracPos(s1[1]) THEN s1
    ELSE IF FracPos(s2[1]) THEN s2
    ELSE << >>

\* min(..., key=itemgetter(0), default=None) over the solutions with t > 0.
MinPositive(s1, s2) ==
    IF FracPos(s1[1]) /\ FracPos(s2[1])
    THEN (IF FracLT(s2[1], s1[1]) THEN s2 ELSE s1)
    ELSE IF FracPos(s1[1]) THEN s1
    ELSE IF FracPos(s2[1]) THEN s2
    ELSE << >>

\* Mutation of firing_direction: the velocities of the two solutions are
\* interchanged.
firing_direction_swapped(gun_x, proj_speed, targ_x, targ_v) ==
    LET d1 == targ_x[1] - gun_x[1]
        d2 == targ_x[2] - gun_x[2]
        dsq == d1 * d1 + d2 * d2
        vt1 == targ_v[1]
        vt2 == targ_v[2]
        dis == proj_speed * proj_speed * dsq
               - (d1 * vt2 - d2 * vt1) * (d1 * vt2 - d2 * vt1)
        sqrtdis == sqrt(dis)
        a == d2 * d2 * vt1 - d1 * d2 * vt2
        b == d1 * (d1 * vt2 - d2 * vt1)
        c == -d1 * vt1 - d2 * vt2
        d == vt1 * vt1 + vt2 * vt2 - proj_speed * proj_speed
        solt1 == Frac(c + sqrtdis, d)
        solv1 == <<Quot(a - d1 * sqrtdis, dsq), Quot(b - d2 * sqrtdis, dsq)>>
        solt2 == Frac(c - sqrtdis, d)
        solv2 == <<Quot(a + d1 * sqrtdis, dsq), Quot(b + d2 * sqrtdis, dsq)>>
    IN  IF dsq = 0 THEN << >>
        ELSE IF dis < 0 THEN << >>
        ELSE MinPositive(<<solt1, solv2>>, <<solt2, solv1>>)

\* Mutation of firing_direction: the discriminant is taken for a
\* projectile of speed 1.
firing_direction_unit_speed(gun_x, proj_speed, targ_x, targ_v) ==
    LET d1 == targ_x[1] - gun_x[1]
        d2 == targ_x[2] - gun_x[2]
        dsq == d1 * d1 + d2 * d2
        vt1 == targ_v[1]
        vt2 == targ_v[2]
        dis == dsq - (d1 * vt2 - d2 * vt1) * (d1 * vt2 - d2 * vt1)
        sqrtdis == sqrt(dis)
        a == d2 * d2 * vt1 - d1 * d2 * vt2
        b == d1 * (d1 * vt2 - d2 * vt1)
        c == -d1 * vt1 - d2 * vt2
        d == vt1 * vt1 + vt2 * vt2 - proj_speed * proj_speed
        solt1 == Frac(c + sqrtdis, d)
        solv1 == <<Quot(a - d1 * sqrtdis, dsq), Quot(b - d2 * sqrtdis, dsq)>>
        solt2 == Frac(c - sqrtdis, d)
        solv2 == <<Quot(a + d1 * sqrtdis, dsq), Quot(b + d2 * sqrtdis, dsq)>>
    IN  IF dsq = 0 THEN << >>
        ELSE IF dis < 0 THEN << >>
        ELSE MinPositive(<<solt1, solv1>>, <<solt2, solv2>>)

\* The tuple "solutions" of firing_direction: ((solt1, solv1), (solt2,
\* solv2)), for a target away from the gun.
firing_solutions(gun_x, proj_speed, targ_x, targ_v) ==
    LET d1 == targ_x[1] - gun_x[1]
        d2 == targ_x[2] - gun_x[2]
        dsq == d1 * d1 + d2 * d2
        vt1 == targ_v[1]
        vt2 == targ_v[2]
        dis == proj_speed * proj_speed * dsq
               - (d1 * vt2 - d2 * vt1) * (d1 * vt2 - d2 * vt1)
        sqrtdis == sqrt(dis)
        a == d2 * d2 * vt1 - d1 * d2 * vt2
        b == d1 * (d1 * vt2 - d2 * vt1)
        c == -d1 * vt1 - d2 * vt2
        d == vt1 * vt1 + vt2 * vt2 - proj_speed * proj_speed
    IN  <<<<Frac(c + sqrtdis, d),
            <<Quot(a - d1 * sqrtdis, dsq), Quot(b - d2 * sqrtdis, dsq)>>>>,
          <<Frac(c - sqrtdis, d),
            <<Quot(a + d1 * sqrtdis, dsq), Quot(b + d2 * sqrtdis, dsq)>>>>>>

\* Returns << >> for None, else <<t, v>>.
firing_direction(gun_x, proj_speed, targ_x, targ_v) ==
    LET d1 == targ_x[1] - gun_x[1]
        d2 == targ_x[2] - gun_x[2]
        dsq == d1 * d1 + d2 * d2
        vt1 == targ_v[1]
        vt2 == targ_v[2]
        dis == proj_speed * proj_speed * dsq
               - (d1 * vt2 - d2 * vt1) * (d1 * vt2 - d2 * vt1)
        sqrtdis == sqrt(dis)
        a == d2 * d2 * vt1 - d1 * d2 * vt2
        b == d1 * (d1 * vt2 - d2 * vt1)
        c == -d1 * vt1 - d2 * vt2
        d == vt1 * vt1 + vt2 * vt2 - proj_speed * proj_speed
        solt1 == Frac(c + sqrtdis, d)
        solv1 == <<Quot(a - d1 * sqrtdis, dsq), Quot(b - d2 * sqrtdis, dsq)>>
        solt2 == Frac(c - sqrtdis, d)
        solv2 == <<Quot(a + d1 * sqrtdis, dsq), Quot(b + d2 * sqrtdis, dsq)>>
    IN  IF dsq = 0 THEN << >>
        ELSE IF dis < 0 THEN << >>
        ELSE MinPositive(<<solt1, solv1>>, <<solt2, solv2>>)

\* ------------------------------------------------------------ constructors
\* What the controller's debug log tells about its latest step: the missile
\* handed to evade_missile (None if none was found), the value evade_missile
\* returned ("None" if it was not called), the solver invocations as pairs
\* <<starting point, EvasionSolution>> and whether the step steered to the
\* target.
ControllerLog(missile, result, invoked, steered) ==
    [missile |-> missile, result |-> result, invoked |-> invoked,
     steered |-> steered]

\* Aircraft.__init__; log is the controller's log, empty so far.
Aircraft(x, v, vmax, dvmax, controller, target) ==
    [kind |-> "Aircraft", x |-> x, v |-> v, vmax |-> vmax, dvmax |-> dvmax,
     controller |-> controller, target |-> target, destroyed |-> FALSE,
     artists |-> "", log |-> ControllerLog(None, "None", << >>, FALSE)]

\* UnguidedMissile.__init__; name is the number n of "Missile<n>".
UnguidedMissile(x, v, vmax, expl_range, target, owner, name) ==
    [kind |-> "Missile", x |-> x, v |-> v, vmax |-> vmax,
     explosion_range |-> expl_range, target |-> target, owner |-> owner,
     name |-> name, exploded |-> FALSE, destroyed |-> FALSE, artists |-> ""]

\* MissileSystem.__init__
MissileSystem(x, v, missile_vmax, expl_range, rate_of_fire, firing_range, max_firing_angle) ==
    [kind |-> "MissileSystem", x |-> x, v |-> v,
     missile_vmax |-> missile_vmax, explosion_range |-> expl_range,
     rate_of_fire |-> rate_of_fire, firing_range |-> firing_range,
     max_firing_angle |-> max_firing_angle, missile |-> None,
     last_fire_time |-> None, fired_missile_count |-> 0, artists |-> ""]

\* Model.find_objects_by_type: registry indices of one type, in order.
find_objects_by_type(objs, type) ==
    SelectSeq([j \in 1..Len(objs) |-> j], LAMBDA j : objs[j].kind = type)

\* ---------------------------------------------------------------- Aircraft
\* Mutation of Aircraft_destroy: the velocity is kept.
Aircraft_destroy_keep_v(a) == [a EXCEPT !.destroyed = TRUE]

\* Aircraft.destroy
Aircraft_destroy(a) == [a EXCEPT !.v = VZero(a.v), !.destroyed = TRUE]

\* min(cand, key=...): the first index of cand at minimum distance from x.
RECURSIVE MinByDist(_, _, _, _)
MinByDist(objs, x, cand, best) ==
    IF cand = << >> THEN best
    ELSE IF sqdist(x, objs[Head(cand)].x) < sqdist(x, objs[best].x)
         THEN MinByDist(objs, x, Tail(cand), Head(cand))
         ELSE MinByDist(objs, x, Tail(cand), best)

\* Mutation of find_missile: the first non-destroyed missile is taken.
find_missile_first(objs, i) ==
    LET cand == SelectSeq(find_objects_by_type(objs, "Missile"),
                          LAMBDA j : ~objs[j].destroyed)
    IN  IF cand # << >> THEN Head(cand) ELSE None

\* Aircraft.find_missile: index of the nearest non-destroyed missile or None.
find_missile(objs, i) ==
    LET cand == SelectSeq(find_objects_by_type(objs, "Missile"),
                          LAMBDA j : ~objs[j].destroyed)
    IN  IF cand # << >> THEN MinByDist(objs, objs[i].x, Tail(cand), Head(cand))
        ELSE None

\* tmindist as a fraction.
tmindist(x1, v1, x2, v2) ==
    LET dv == VSub(v1, v2)
        dvsq == Dot(dv, dv)
        dx == VSub(x1, x2)
    IN  IF dvsq = 0 THEN <<0, 1>> ELSE <<-Dot(dv, dx), dvsq>>

\* Mutation of sqmindist: the scalar product takes the place of the cross
\* product.
sqmindist_dot(x1, v1, x2, v2) ==
    LET dv == VSub(v1, v2)
        dvsq == Dot(dv, dv)
        dx == VSub(x1, x2)
    IN  IF dvsq = 0 THEN <<Dot(dx, dx), 1>>
        ELSE <<Dot(dv, dx) * Dot(dv, dx), dvsq>>

\* sqmindist as a fraction.
sqmindist(x1, v1, x2, v2) ==
    LET dv == VSub(v1, v2)
        dvsq == Dot(dv, dv)
        dx == VSub(x1, x2)
        cr == dv[1] * dx[2] - dv[2] * dx[1]
    IN  IF dvsq = 0 THEN <<Dot(dx, dx), 1>> ELSE <<cr * cr, dvsq>>

\* Mutation of EvasionStarts: the upper starting point comes before the
\* lower one.
EvasionStarts_upper_first(v0, dvmax) ==
    LET off == Quot(dvmax * evasion_vel_coeff[1], evasion_vel_coeff[2])
    IN  <<v0,
          [j \in 1..Len(v0) |-> v0[j] + off],
          [j \in 1..Len(v0) |-> v0[j] - off]>>

\* The starting points of AircraftControllerOptimalEvasion.evade_missile.
EvasionStarts(v0, dvmax) ==
    LET off == Quot(dvmax * evasion_vel_coeff[1], evasion_vel_coeff[2])
    IN  <<v0,
          [j \in 1..Len(v0) |-> v0[j] - off],
          [j \in 1..Len(v0) |-> v0[j] + off]>>

\* The loop over the starting points from the n-th on; solver[n] is the
\* EvasionSolution the solver returns for the n-th starting point.
RECURSIVE EvasionSearch(_, _, _, _)
EvasionSearch(v0, starts, solver, n) ==
    IF n > Len(starts)
    THEN [result |-> "FAIL", v |-> v0, tried |-> Len(starts),
          invoked |-> [k \in 1..Len(starts) |-> <<starts[k], solver[k]>>]]
    ELSE IF solver[n].success /\ solver[n].nit > 0
         THEN [result |-> "SUCCESS", v |-> solver[n].v, tried |-> n,
               invoked |-> [k \in 1..n |-> <<starts[k], solver[k]>>]]
         ELSE EvasionSearch(v0, starts, solver, n + 1)

\* Mutation of evade_missile: the time of minimum distance is not looked at.
evade_missile_always(a, missile, solver) ==
    IF a.controller = "OptimalEvasion"
    THEN EvasionSearch(a.v, EvasionStarts(a.v, a.dvmax), solver, 1)
    ELSE [result |-> "NO_THREAT", v |-> a.v, tried |-> 0, invoked |-> << >>]

\* evade_missile of the aircraft's controller: the result, the aircraft's
\* velocity afterwards, the number of solver invocations and the
\* invocations themselves.
evade_missile(a, missile, solver) ==
    IF a.controller = "OptimalEvasion"
    THEN IF tmindist(a.x, a.v, missile.x, missile.v)[1] < 0
         THEN [result |-> "NO_THREAT", v |-> a.v, tried |-> 0,
               invoked |-> << >>]
         ELSE EvasionSearch(a.v, EvasionStarts(a.v, a.dvmax), solver, 1)
    ELSE [result |-> "NO_THREAT", v |-> a.v, tried |-> 0, invoked |-> << >>]

\* Mutation of controller_next: a failed evasion falls back to steering to
\* the target.
controller_next_fallback(objs, i, solver) ==
    LET a == objs[i]
        m == find_missile(objs, i)
        ev == IF m # None THEN evade_missile(a, objs[m], solver)
              ELSE [result |-> "None", v |-> a.v, tried |-> 0,
                    invoked |-> << >>]
        a1 == [a EXCEPT !.v = ev.v,
                        !.log = ControllerLog(m, ev.result, ev.invoked, FALSE)]
    IN  IF ~a.destroyed
        THEN IF ev.result \in {"None", "NO_THREAT", "FAIL"}
             THEN IF a1.target # << >>
                  THEN [a1 EXCEPT !.v = VAdd(a1.v,
                           abs_dir_clip(VSub(VSub(a1.target, a1.x), a1.v),
                                        a1.dvmax)),
                                  !.log.steered = TRUE]
                  ELSE a1
             ELSE a1
        ELSE a

\* AircraftControllerEvadingTargeted.next: the aircraft after the step.
controller_next(objs, i, solver) ==
    LET a == objs[i]
        m == find_missile(objs, i)
        ev == IF m # None THEN evade_missile(a, objs[m], solver)
              ELSE [result |-> "None", v |-> a.v, tried |-> 0,
                    invoked |-> << >>]
        a1 == [a EXCEPT !.v = ev.v,
                        !.log = ControllerLog(m, ev.result, ev.invoked, FALSE)]
    IN  IF ~a.destroyed
        THEN IF ev.result \in {"None", "NO_THREAT"}
             THEN IF a1.target # << >>
                  THEN [a1 EXCEPT !.v = VAdd(a1.v,
                           abs_dir_clip(VSub(VSub(a1.target, a1.x), a1.v),
                                        a1.dvmax)),
                                  !.log.steered = TRUE]
                  ELSE a1
             ELSE a1
        ELSE a

\* Aircraft.next
Aircraft_next(objs, i, t_, dt_, solver) ==
    LET a1 == controller_next(objs, i, solver)
        a2 == [a1 EXCEPT !.v = abs_dir_clip(a1.v, a1.vmax)]
        a3 == [a2 EXCEPT !.x = VAdd(a2.x, VScale(dt_, a2.v))]
    IN  [objs EXCEPT ![i] = a3]

\* ----------------------------------------------------------------- Missile
\* Mutation of Missile_destroy: the velocity is kept.
Missile_destroy_keep_v(m) == [m EXCEPT !.destroyed = TRUE]

\* UnguidedMissile.destroy
Missile_destroy(m) == [m EXCEPT !.v = VZero(m.v), !.destroyed = TRUE]

\* Mutation of Missile_explode: destroy() is not called.
Missile_explode_flag_only(m) == [m EXCEPT !.exploded = TRUE]

\* UnguidedMissile.explode
Missile_explode(m) == Missile_destroy([m EXCEPT !.exploded = TRUE])

\* Mutation of Missile_self_destruct: nothing happens.
Missile_self_destruct_noop(m) == m

\* UnguidedMissile.self_destruct
Missile_self_destruct(m) == Missile_destroy(m)

\* Mutation of OutOfBounds: only the lower bounds are looked at.
OutOfBounds_lower(x) == \E j \in 1..Len(x) : x[j] < xlb[j]

\* (self.x < xlb).any() or (self.x > xub).any()
OutOfBounds(x) == \E j \in 1..Len(x) : x[j] < xlb[j] \/ x[j] > xub[j]

\* Mutation of Missile_next: the missile moves before the proximity fuze
\* is looked at.
Missile_next_move_first(objs, i, t_, dt_) ==
    LET m == objs[i]
        hit == ~m.destroyed
               /\ distLE(m.x, objs[m.target].x, m.explosion_range)
        m1 == [m EXCEPT !.x = VAdd(m.x, VScale(dt_, m.v))]
        m2 == IF hit THEN Missile_explode(m1) ELSE m1
        objs1 == IF hit
                 THEN [objs EXCEPT ![m.target] = Aircraft_destroy(@)]
                 ELSE objs
        m3 == IF ~m2.destroyed /\ OutOfBounds(m2.x)
              THEN Missile_self_destruct(m2) ELSE m2
    IN  [objs1 EXCEPT ![i] = m3]

\* Mutation of Missile_next: the proximity fuze works on a destroyed
\* missile too.
Missile_next_fuze(objs, i, t_, dt_) ==
    LET m == objs[i]
        hit == distLE(m.x, objs[m.target].x, m.explosion_range)
        m1 == IF hit THEN Missile_explode(m) ELSE m
        objs1 == IF hit
                 THEN [objs EXCEPT ![m.target] = Aircraft_destroy(@)]
                 ELSE objs
        m2 == [m1 EXCEPT !.x = VAdd(m1.x, VScale(dt_, m1.v))]
        m3 == IF ~m2.destroyed /\ OutOfBounds(m2.x)
              THEN Missile_self_destruct(m2) ELSE m2
    IN  [objs1 EXCEPT ![i] = m3]

\* UnguidedMissile.next
Missile_next(objs, i, t_, dt_) ==
    LET m == objs[i]
        hit == ~m.destroyed
               /\ distLE(m.x, objs[m.target].x, m.explosion_range)
        m1 == IF hit THEN Missile_explode(m) ELSE m
        objs1 == IF hit
                 THEN [objs EXCEPT ![m.target] = Aircraft_destroy(@)]
                 ELSE objs
        m2 == [m1 EXCEPT !.x = VAdd(m1.x, VScale(dt_, m1.v))]
        m3 == IF ~m2.destroyed /\ OutOfBounds(m2.x)
              THEN Missile_self_destruct(m2) ELSE m2
    IN  [objs1 EXCEPT ![i] = m3]

\* ----------------------------------------------------------- MissileSystem
\* Mutation of find_target: the nearest aircraft in range is taken.
find_target_nearest(objs, i) ==
    LET cand == SelectSeq(find_objects_by_type(objs, "Aircraft"),
                   LAMBDA j : /\ ~objs[j].destroyed
                              /\ distLE(objs[i].x, objs[j].x,
                                        objs[i].firing_range))
    IN  IF cand # << >> THEN MinByDist(objs, objs[i].x, Tail(cand), Head(cand))
        ELSE None

\* MissileSystem.find_target: the first aircraft in range or None.
find_target(objs, i) ==
    LET cand == SelectSeq(find_objects_by_type(objs, "Aircraft"),
                   LAMBDA j : /\ ~objs[j].destroyed
                              /\ distLE(objs[i].x, objs[j].x,
                                        objs[i].firing_range))
    IN  IF cand # << >> THEN Head(cand) ELSE None

\* Mutation of fire: the missile fired is not counted.
fire_uncounted(objs, i, target) ==
    LET s == objs[i]
        sol == firing_direction(s.x, s.missile_vmax, objs[target].x,
                                objs[target].v)
    IN  IF sol = << >> THEN objs
        ELSE IF AngleGT(vec_angle_up(sol[2]), s.max_firing_angle) THEN objs
        ELSE Append(
               [objs EXCEPT ![i] = [s EXCEPT !.missile = Len(objs) + 1]],
               UnguidedMissile(s.x, sol[2], s.missile_vmax,
                               s.explosion_range, target, i,
                               s.fired_missile_count))

\* Mutation of fire: the missile is counted before the firing angle is
\* checked.
fire_count_first(objs, i, target) ==
    LET s == objs[i]
        sol == firing_direction(s.x, s.missile_vmax, objs[target].x,
                                objs[target].v)
    IN  IF sol = << >> THEN objs
        ELSE IF AngleGT(vec_angle_up(sol[2]), s.max_firing_angle)
             THEN [objs EXCEPT ![i].fired_missile_count = @ + 1]
        ELSE Append(
               [objs EXCEPT ![i] =
                   [s EXCEPT !.missile = Len(objs) + 1,
                             !.fired_missile_count = @ + 1]],
               UnguidedMissile(s.x, sol[2], s.missile_vmax,
                               s.explosion_range, target, i,
                               s.fired_missile_count))

\* MissileSystem.fire: the registry afterwards; the launcher's missile
\* field tells whether a missile was fired.
fire(objs, i, target) ==
    LET s == objs[i]
        sol == firing_direction(s.x, s.missile_vmax, objs[target].x,
                                objs[target].v)
    IN  IF sol = << >> THEN objs
        ELSE IF AngleGT(vec_angle_up(sol[2]), s.max_firing_angle) THEN objs
        ELSE Append(
               [objs EXCEPT ![i] =
                   [s EXCEPT !.missile = Len(objs) + 1,
                             !.fired_missile_count = @ + 1]],
               UnguidedMissile(s.x, sol[2], s.missile_vmax,
                               s.explosion_range, target, i,
                               s.fired_missile_count))

\* Mutation of range_cut: a missile is left alone however far it is.
range_cut_never(objs, i) == objs

\* MissileSystem.next, "if dist(self.x, self.missile.x) > self.firing_range":
\* the missile that left the firing range self-destructs.
range_cut(objs, i) ==
    LET s == objs[i]
    IN  IF ~distLE(s.x, objs[s.missile].x, s.firing_range)
        THEN [objs EXCEPT ![s.missile] = Missile_self_destruct(@)]
        ELSE objs

\* Mutation of clear_missile: the reference is dropped whatever the state
\* of the missile.
clear_missile_always(objs, i) == [objs EXCEPT ![i].missile = None]

\* MissileSystem.next, "if self.missile.destroyed: self.missile = None"
clear_missile(objs, i) ==
    IF objs[objs[i].missile].destroyed
    THEN [objs EXCEPT ![i].missile = None]
    ELSE objs

\* Mutation of cooled_down: the launcher never waits.
cooled_down_always(s, t_) == TRUE

\* MissileSystem.next, the cooldown condition
cooled_down(s, t_) ==
    s.last_fire_time = None \/ t_ >= s.last_fire_time + s.rate_of_fire

\* MissileSystem.next, "if self.missile is None": fire at a target if any
try_fire(objs, i, t_) ==
    LET target == find_target(objs, i)
    IN  IF cooled_down(objs[i], t_)
        THEN IF target # None
             THEN LET f == fire(objs, i, target)
                  IN  IF f[i].missile # None
                      THEN [f EXCEPT ![i].last_fire_time = t_]
                      ELSE f
             ELSE objs
        ELSE objs

\* MissileSystem.next
MissileSystem_next(objs, i, t_, dt_) ==
    LET objs1 == IF objs[i].missile # None
                 THEN clear_missile(range_cut(objs, i), i)
                 ELSE objs
        objs2 == IF objs1[i].missile = None
                 THEN try_fire(objs1, i, t_)
                 ELSE objs1
    IN  [objs2 EXCEPT ![i].x = VAdd(@, VScale(dt_, objs2[i].v))]

\* ------------------------------------------------------------- scenarios
\* max_firing_angle values as <<1000 cos, 1000 sin>>: 1.5 rad and 2.0 rad.
Angle15 == <<71, 997>>
Angle20 == <<-416, 909>>

Controllers == {"EvadingTargeted", "OptimalEvasion"}

\* evader.examples.optimal.make_model_objects: an aircraft flying to its
\* target past two missile systems.
ScenarioExample(c) ==
    <<Aircraft(<<25, 90>>, <<0, 0>>, 20, 15, c, <<50, 0>>),
      MissileSystem(<<75, 0>>, <<0, 0>>, 50, 5, 2, 50, Angle15),
      MissileSystem(<<25, 0>>, <<0, 0>>, 50, 5, 2, 50, Angle15)>>

\* An aircraft hovering at its target, one missile time step from a system.
ScenarioHover(c) ==
    <<Aircraft(<<50, 40>>, <<0, 0>>, 20, 15, c, <<50, 40>>),
      MissileSystem(<<20, 0>>, <<0, 0>>, 50, 5, 2, 50, Angle15)>>

\* A short-range missile system driving past the edge of the world towards
\* an aircraft hovering on the edge.
ScenarioMoving(c) ==
    <<MissileSystem(<<86, 50>>, <<8, 0>>, 50, 5, 2, 3, Angle20),
      Aircraft(<<100, 50>>, <<0, 0>>, 20, 15, c, <<100, 50>>)>>

\* A slow aircraft on its way to a distant target, in range of a system
\* with a short cooldown.
ScenarioSlow(c) ==
    <<Aircraft(<<50, 40>>, <<0, -2>>, 2, 2, c, <<50, 0>>),
      MissileSystem(<<20, 0>>, <<0, 0>>, 50, 5, 1, 50, Angle15)>>

\* An aircraft climbing to its target from below a missile system, past a
\* second system whose missiles are as fast as the aircraft's first climb
\* and slower than its second.
ScenarioBelow(c) ==
    <<Aircraft(<<50, 20>>, <<0, 0>>, 20, 15, c, <<50, 90>>),
      MissileSystem(<<50, 50>>, <<0, 0>>, 50, 2, 2, 40, Angle15),
      MissileSystem(<<50, 0>>, <<0, 0>>, 15, 5, 2, 50, Angle15)>>

\* Two aircraft above a quick-firing missile system: the first one climbs
\* to a target just out of the firing range, the second one hovers nearer
\* to the system.
ScenarioPair(c) ==
    <<Aircraft(<<50, 80>>, <<0, 0>>, 20, 15, c, <<50, 100>>),
      Aircraft(<<50, 58>>, <<0, 0>>, 20, 15, c, <<50, 58>>),
      MissileSystem(<<50, 50>>, <<0, 0>>, 50, 2, 1, 49, Angle15)>>

\* Two hovering aircraft in range of a missile system, the first one
\* below it, beyond the firing angle, the second one above it.
ScenarioDecoy(c) ==
    <<Aircraft(<<50, 30>>, <<0, 0>>, 20, 15, c, <<50, 30>>),
      Aircraft(<<50, 60>>, <<0, 0>>, 20, 15, c, <<50, 60>>),
      MissileSystem(<<50, 50>>, <<0, 0>>, 50, 5, 2, 40, Angle15)>>

\* An aircraft at full speed on both axes whose target lies across its
\* course, out of reach of any missile system.
ScenarioTurn(c) ==
    <<Aircraft(<<10, 50>>, <<20, -20>>, 20, 15, c, <<60, 60>>)>>

Scenarios ==
    UNION {{ScenarioExample(c), ScenarioHover(c), ScenarioMoving(c),
            ScenarioSlow(c), ScenarioBelow(c), ScenarioPair(c),
            ScenarioDecoy(c), ScenarioTurn(c)} : c \in Controllers}

\* Arguments of Model.run.
TMaxs == {-2, 0, MaxTime}
Dts == {1, 2}

\* Keys of a key press event: pause, exit, any other.
Keys == {" ", "escape", "a"}

\* ------------------------------------------------------------------- state
VARIABLES
    objects,    \* Model.objects, the registry
    paused,     \* Model.paused
    exit,       \* Model.exit
    tmax,       \* argument of Model.run
    dt,         \* argument of Model.run
    t,          \* local t of Model.run
    pc,         \* position in Model.run
    idx,        \* position of the iterator of "for obj in self.objects"
    calls,      \* the calls <<method, index, arguments>> of the latest pass
    quantum,    \* what the latest loop body did: "none", "tick" or "skip"
    result,     \* return value of Model.run, None while running
    call        \* a call of a function of evader.math on its own

vars ==
    <<objects, paused, exit, tmax, dt, t, pc, idx, calls, quantum, result,
      call>>

\* A call of function fn on the arguments args (each one a vector, a number
\* being a vector of one component); out is what it returned once done.
Call(fn, args) == [fn |-> fn, args |-> args, out |-> << >>, done |-> FALSE]

\* No function is called on its own while Model.run is running.
NoCall == Call("none", << >>)

Init ==
    /\ objects \in Scenarios
    /\ paused = FALSE
    /\ exit = FALSE
    /\ tmax \in TMaxs
    /\ dt \in Dts
    /\ t = 0
    /\ pc = "while"
    /\ idx = 1
    /\ calls = << >>
    /\ quantum = "none"
    /\ result = None
    /\ call = NoCall

\* ------------------------------------------------------------- Model.run
\* Mutation of While: the loop stops as soon as t reaches tmax.
While_strict ==
    /\ pc = "while"
    /\ pc' = IF ~exit /\ t < tmax THEN "if" ELSE "return"
    /\ UNCHANGED <<call, objects, paused, exit, tmax, dt, t, idx, calls, quantum,
                   result>>

\* Mutation of While: the exit flag is not looked at.
While_ignore_exit ==
    /\ pc = "while"
    /\ pc' = IF t <= tmax THEN "if" ELSE "return"
    /\ UNCHANGED <<call, objects, paused, exit, tmax, dt, t, idx, calls, quantum,
                   result>>

\* while not self.exit and t <= tmax
While ==
    /\ pc = "while"
    /\ pc' = IF ~exit /\ t <= tmax THEN "if" ELSE "return"
    /\ UNCHANGED <<call, objects, paused, exit, tmax, dt, t, idx, calls, quantum,
                   result>>

\* Mutation of IfNotPaused: the paused flag is not looked at.
IfNotPaused_ignore_paused ==
    /\ pc = "if"
    /\ t' = t + dt
    /\ idx' = 1
    /\ calls' = << >>
    /\ quantum' = "tick"
    /\ pc' = "for"
    /\ UNCHANGED <<call, objects, paused, exit, tmax, dt, result>>

\* if not self.paused: set the title, t += dt, start the for loop
IfNotPaused ==
    /\ pc = "if"
    /\ IF ~paused
       THEN /\ t' = t + dt
            /\ idx' = 1
            /\ calls' = << >>
            /\ quantum' = "tick"
            /\ pc' = "for"
       ELSE /\ quantum' = "skip"
            /\ pc' = "pause"
            /\ UNCHANGED <<t, idx, calls>>
    /\ UNCHANGED <<call, objects, paused, exit, tmax, dt, result>>

\* Mutation of For: the loop runs over a copy of the list made when the
\* pass began, so a missile fired in this pass (never drawn yet) is left out.
For_snapshot ==
    /\ pc = "for"
    /\ pc' = IF /\ idx <= Len(objects)
                /\ ~(objects[idx].kind = "Missile"
                     /\ objects[idx].artists = "")
             THEN "erase" ELSE "pause"
    /\ UNCHANGED <<call, objects, paused, exit, tmax, dt, t, idx, calls, quantum,
                   result>>

\* for obj in self.objects: the list iterator looks at the list as it is now
For ==
    /\ pc = "for"
    /\ pc' = IF idx <= Len(objects) THEN "erase" ELSE "pause"
    /\ UNCHANGED <<call, objects, paused, exit, tmax, dt, t, idx, calls, quantum,
                   result>>

\* Mutation of Erase: the object is advanced before it is drawn again.
Erase_then_next ==
    /\ pc = "erase"
    /\ objects' = [objects EXCEPT ![idx].artists = ""]
    /\ calls' = Append(calls, <<"erase", idx>>)
    /\ pc' = "next"
    /\ UNCHANGED <<call, paused, exit, tmax, dt, t, idx, quantum, result>>

\* obj.erase(): remove_artists
Erase ==
    /\ pc = "erase"
    /\ objects' = [objects EXCEPT ![idx].artists = ""]
    /\ calls' = Append(calls, <<"erase", idx>>)
    /\ pc' = "draw"
    /\ UNCHANGED <<call, paused, exit, tmax, dt, t, idx, quantum, result>>

\* The plot style of Aircraft.draw, UnguidedMissile.draw, MissileSystem.draw.
draw_style(o) ==
    IF o.kind = "Aircraft" THEN (IF o.destroyed THEN "k^" ELSE "b^")
    ELSE IF o.kind = "Missile"
         THEN (IF o.exploded THEN "Circle"
               ELSE IF o.destroyed THEN "k*" ELSE "r*")
    ELSE "gs"

\* obj.draw(self.ax)
Draw ==
    /\ pc = "draw"
    /\ objects' = [objects EXCEPT ![idx].artists = draw_style(objects[idx])]
    /\ calls' = Append(calls, <<"draw", idx>>)
    /\ pc' = "next"
    /\ UNCHANGED <<call, paused, exit, tmax, dt, t, idx, quantum, result>>

\* The results an evasion solver may return for an aircraft: not converged,
\* converged at once, converged to a velocity within v0 +- dvmax.
EvasionSolutions(a) ==
    {[v |-> a.v, nit |-> 1, success |-> FALSE],
     [v |-> a.v, nit |-> 0, success |-> TRUE],
     [v |-> VAdd(a.v, <<a.dvmax, 0>>), nit |-> 2, success |-> TRUE],
     [v |-> VAdd(a.v, <<0 - a.dvmax, a.dvmax>>), nit |-> 2, success |-> TRUE]}

\* The solver behaviours to consider for the aircraft at index i: one
\* result for every starting point if the solver is going to be invoked.
Solvers(objs, i) ==
    LET a == objs[i]
        m == find_missile(objs, i)
    IN  IF ~a.destroyed /\ m # None
           /\ evade_missile(a, objs[m],
                  [n \in 1..3 |-> [v |-> a.v, nit |-> 0, success |-> FALSE]]
              ).tried > 0
        THEN [1..3 -> EvasionSolutions(a)]
        ELSE {[n \in 1..3 |-> [v |-> a.v, nit |-> 0, success |-> FALSE]]}

\* obj.next(t, dt) and the step of the iterator
NextDone ==
    /\ calls' = Append(calls, <<"next", idx, t, dt>>)
    /\ idx' = idx + 1
    /\ pc' = "for"
    /\ UNCHANGED <<call, paused, exit, tmax, dt, t, quantum, result>>

AircraftNext ==
    /\ pc = "next"
    /\ objects[idx].kind = "Aircraft"
    /\ \E solver \in Solvers(objects, idx) :
           objects' = Aircraft_next(objects, idx, t, dt, solver)
    /\ NextDone

MissileNext ==
    /\ pc = "next"
    /\ objects[idx].kind = "Missile"
    /\ objects' = Missile_next(objects, idx, t, dt)
    /\ NextDone

MissileSystemNext ==
    /\ pc = "next"
    /\ objects[idx].kind = "MissileSystem"
    /\ objects' = MissileSystem_next(objects, idx, t, dt)
    /\ NextDone

\* Model._on_key_press, delivered while plt.pause runs the event loop
OnKeyPress(key) ==
    /\ pc = "pause"
    /\ IF key = " " THEN paused' = ~paused /\ UNCHANGED exit
       ELSE IF key = "escape" THEN exit' = TRUE /\ UNCHANGED paused
       ELSE UNCHANGED <<paused, exit>>
    /\ UNCHANGED <<call, objects, tmax, dt, t, pc, idx, calls, quantum, result>>

KeyPress == \E key \in Keys : OnKeyPress(key)

\* plt.pause(frame_time) returns
PauseReturn ==
    /\ pc = "pause"
    /\ pc' = "while"
    /\ UNCHANGED <<call, objects, paused, exit, tmax, dt, t, idx, calls, quantum,
                   result>>

\* mpl_disconnect; return t
Return ==
    /\ pc = "return"
    /\ result' = t
    /\ pc' = "done"
    /\ UNCHANGED <<call, objects, paused, exit, tmax, dt, t, idx, calls, quantum>>

\* The steps of the loop of Model.run itself.
Loop ==
    \/ While
    \/ IfNotPaused
    \/ For
    \/ Erase
    \/ Draw
    \/ PauseReturn
    \/ Return

\* The steps obj.next(t, dt).
ObjectNext ==
    \/ AircraftNext
    \/ MissileNext
    \/ MissileSystemNext

Next == Loop \/ ObjectNext \/ KeyPress

Spec == Init /\ [][Next]_vars

\* obj.next(t, dt) returns to the loop, whatever it did to the objects.
NextReturns == pc = "next" /\ pc' = "for"

\* The loop of Model.run keeps running, every call of obj.next returns and
\* plt.pause returns after frame_time; nothing is assumed about the key
\* presses.
FairSpec == Spec /\ WF_vars(Loop) /\ WF_pc(NextReturns)

\* ------------------------------------------- the functions of evader.math
\* Arguments of abs_dir_clip: vectors of two and three components, some of
\* them zero, and bounds given as one number or per component.
ClipValues == {-6, -3, 0, 2, 5}
ClipBounds == {0, 1, 3, 4}
ClipVectors == [1..2 -> ClipValues] \cup [1..3 -> ClipValues]

AbsDirClipCalls ==
    {Call("abs_dir_clip", <<x, <<r>>>>) :
        x \in ClipVectors, r \in ClipBounds}
    \cup {Call("abs_dir_clip", <<x, xmax>>) :
            x \in [1..2 -> ClipValues], xmax \in [1..2 -> ClipBounds]}

\* Arguments of firing_direction: guns and targets in the world of the
\* examples, targets at rest, slower than the projectile, as fast as it
\* and faster, and the docstring-sized example gun (0,0), target (10,0).
GunPositions == {<<0, 0>>, <<20, 0>>}
ProjSpeeds == {10, 50}
TargetPositions ==
    {<<x1, x2>> : x1 \in {0, 30, 50, 90}, x2 \in {0, 30, 50, 90}}
    \cup {<<10, 0>>, <<20, 0>>}
TargetVelocities ==
    {<<0, 0>>, <<6, 8>>, <<0, -10>>, <<30, 40>>, <<-20, 5>>, <<14, -48>>,
     <<0, -50>>, <<60, 0>>, <<-6, 5>>, <<9, -4>>}

FiringDirectionCalls ==
    {Call("firing_direction", <<gun_x, <<proj_speed>>, targ_x, targ_v>>) :
        gun_x \in GunPositions, proj_speed \in ProjSpeeds,
        targ_x \in TargetPositions, targ_v \in TargetVelocities}

\* Arguments of tmindist and sqmindist: two points, at rest, at the same
\* velocity or at different ones, nearing or parting.
PointPositions == {<<0, 0>>, <<5, 0>>, <<3, -4>>, <<-2, 7>>}
PointVelocities == {<<0, 0>>, <<1, 0>>, <<2, -3>>, <<-1, 4>>}

MinDistCalls ==
    {Call(fn, <<x1, v1, x2, v2>>) :
        fn \in {"tmindist", "sqmindist"},
        x1 \in PointPositions, v1 \in PointVelocities,
        x2 \in PointPositions, v2 \in PointVelocities}

\* A function of evader.math is about to be called; Model.run is not
\* running.
MathInit ==
    /\ objects = << >>
    /\ paused = FALSE
    /\ exit = FALSE
    /\ tmax = 0
    /\ dt = 1
    /\ t = 0
    /\ pc = "done"
    /\ idx = 1
    /\ calls = << >>
    /\ quantum = "none"
    /\ result = None
    /\ call \in AbsDirClipCalls \cup FiringDirectionCalls \cup MinDistCalls

\* abs_dir_clip(x, xmax); isinstance(xmax, numbers.Real) is the case of a
\* vector of one component.
CallAbsDirClip ==
    /\ call.fn = "abs_dir_clip"
    /\ ~call.done
    /\ call' = [call EXCEPT
                  !.out = IF Len(call.args[2]) = 1
                          THEN abs_dir_clip(call.args[1], call.args[2][1])
                          ELSE abs_dir_clip_vec(call.args[1], call.args[2]),
                  !.done = TRUE]
    /\ UNCHANGED <<objects, paused, exit, tmax, dt, t, pc, idx, calls,
                   quantum, result>>

\* firing_direction(gun_x, None, proj_speed, targ_x, targ_v)
CallFiringDirection ==
    /\ call.fn = "firing_direction"
    /\ ~call.done
    /\ call' = [call EXCEPT
                  !.out = firing_direction(call.args[1], call.args[2][1],
                                           call.args[3], call.args[4]),
                  !.done = TRUE]
    /\ UNCHANGED <<objects, paused, exit, tmax, dt, t, pc, idx, calls,
                   quantum, result>>

\* tmindist(x1, v1, x2, v2)
CallTmindist ==
    /\ call.fn = "tmindist"
    /\ ~call.done
    /\ call' = [call EXCEPT
                  !.out = tmindist(call.args[1], call.args[2],
                                   call.args[3], call.args[4]),
                  !.done = TRUE]
    /\ UNCHANGED <<objects, paused, exit, tmax, dt, t, pc, idx, calls,
                   quantum, result>>

\* sqmindist(x1, v1, x2, v2)
CallSqmindist ==
    /\ call.fn = "sqmindist"
    /\ ~call.done
    /\ call' = [call EXCEPT
                  !.out = sqmindist(call.args[1], call.args[2],
                                    call.args[3], call.args[4]),
                  !.done = TRUE]
    /\ UNCHANGED <<objects, paused, exit, tmax, dt, t, pc, idx, calls,
                   quantum, result>>

MathNext ==
    \/ CallAbsDirClip
    \/ CallFiringDirection
    \/ CallTmindist
    \/ CallSqmindist

MathSpec == MathInit /\ [][MathNext]_vars

\* ------------------------------------------------------------ properties
Indices == 1..Len(objects)
MissileIdx == {j \in Indices : objects[j].kind = "Missile"}
AircraftIdx == {j \in Indices : objects[j].kind = "Aircraft"}
SystemIdx == {j \in Indices : objects[j].kind = "MissileSystem"}

\* The last call made on an object in the current pass, or << >>.
LastCall == IF calls = << >> THEN << >> ELSE calls[Len(calls)]

\* The non-destroyed missiles of the registry owned by launcher i.
LiveMissilesOf(i) ==
    {j \in MissileIdx : objects[j].owner = i /\ ~objects[j].destroyed}

\* C1: in every reachable state, each MissileSystem owns at most one
\* missile of the registry with destroyed = false.
C1_OneLiveMissile ==
    \A i \in SystemIdx : Cardinality(LiveMissilesOf(i)) <= 1

\* A launcher that has fired twice and owns a live missile.
C1_Witness ==
    \E i \in SystemIdx :
        /\ objects[i].fired_missile_count >= 2
        /\ Cardinality(LiveMissilesOf(i)) = 1

\* Object j is about to be advanced by the next step.
Advancing(j) == pc = "next" /\ idx = j

C4_MissileInvariant ==
    \A j \in MissileIdx :
        /\ objects[j].exploded => objects[j].destroyed
        /\ objects[j].destroyed => objects[j].v = <<0, 0>>

\* A registry holding an exploded missile next to a missile that was
\* destroyed without exploding.
C4_Witness ==
    /\ \E j \in MissileIdx : objects[j].exploded /\ objects[j].destroyed
    /\ \E j \in MissileIdx : objects[j].destroyed /\ ~objects[j].exploded

\* C5: a destroyed aircraft stays destroyed, has v = 0 in every state, and
\* no step (of the controller, of Aircraft.next or of anything else)
\* changes its velocity or its position.
C5_AircraftFrozen ==
    /\ [](\A j \in AircraftIdx :
             objects[j].destroyed => objects[j].v = <<0, 0>>)
    /\ [][\A j \in AircraftIdx :
             objects[j].destroyed
             => /\ objects'[j].destroyed
                /\ objects'[j].v = <<0, 0>>
                /\ objects'[j].x = objects[j].x]_vars

\* A destroyed aircraft, away from its target, drawn as destroyed in this
\* pass and advanced after that while a live missile is about.
C5_Witness ==
    \E j \in AircraftIdx :
        /\ LastCall = <<"next", j, t, dt>>
        /\ objects[j].artists = "k^"
        /\ objects[j].destroyed
        /\ objects[j].x # objects[j].target

\* The n-th call of a pass made at model time tm with time step d.
ExpectedCall(n, tm, d) ==
    LET j == ((n - 1) \div 3) + 1
    IN  IF (n - 1) % 3 = 0 THEN <<"erase", j>>
        ELSE IF (n - 1) % 3 = 1 THEN <<"draw", j>>
        ELSE <<"next", j, tm, d>>

InPass == pc \in {"for", "erase", "draw", "next"}

\* C6: an unpaused quantum increments t first and then calls erase, draw,
\* next(t, dt) on one object after the other in registry order, the three
\* calls of an object before the erase of the following one.
C6_CallOrder ==
    /\ [](\A n \in 1..Len(calls) : calls[n] = ExpectedCall(n, t, dt))
    /\ [][(pc = "if" /\ ~paused) => (t' = t + dt /\ calls' = << >>)]_vars
    /\ [][InPass =>
            /\ t' = t
            /\ \/ calls' = calls
               \/ calls' = Append(calls,
                                  ExpectedCall(Len(calls) + 1, t, dt))]_vars
    /\ [](pc = "erase" => Len(calls) = 3 * (idx - 1))

\* A pass has gone through three objects.
C6_Witness == pc = "pause" /\ quantum = "tick" /\ Len(calls) >= 9

\* The number of calls of method op on object j in the latest pass.
CallCount(op, j) ==
    Cardinality({n \in 1..Len(calls) : calls[n][1] = op /\ calls[n][2] = j})

\* Missile j was fired during the latest pass.
FiredInPass(j) ==
    /\ objects[objects[j].owner].missile = j
    /\ objects[objects[j].owner].last_fire_time = t

\* C7: when a pass is over, every object of the registry, a missile fired
\* during the pass included, was erased, drawn and advanced exactly once in
\* it; a missile fired during a pass gets its calls later in that pass.
C7_SamePass ==
    /\ [](quantum # "none" /\ ~InPass =>
            \A j \in Indices :
                /\ CallCount("erase", j) = 1
                /\ CallCount("draw", j) = 1
                /\ CallCount("next", j) = 1)
    /\ [][\A j \in 1..Len(objects') :
            (j > Len(objects)) => (InPass /\ idx < j /\ CallCount("next", j) = 0)
         ]_vars

\* The pass is over and a missile fired in it has been advanced in it.
C7_Witness ==
    /\ pc = "pause" /\ quantum = "tick"
    /\ \E j \in MissileIdx : FiredInPass(j) /\ CallCount("next", j) = 1

\* The run has returned.
Terminated == pc = "done"

C9_Exit ==
    /\ [][exit =>
            /\ exit'
            /\ objects' = objects /\ calls' = calls /\ t' = t
            /\ (pc = "while" => pc' = "return")]_vars
    /\ [](exit => pc \in {"pause", "while", "return", "done"})
    /\ [](exit => <>Terminated)
    /\ [](Terminated /\ exit =>
            /\ result = t
            /\ quantum # "none"
            /\ \A j \in Indices : <<"next", j, result, dt>> \in
                                  {calls[n] : n \in 1..Len(calls)})

\* The run has returned on an exit signal given while it was paused, with
\* model time left.
C9_Witness ==
    Terminated /\ exit /\ paused /\ quantum = "skip" /\ result <= tmax

\* C10 as stated: a quantum that finds the model paused leaves t, the
\* registry and every object as they are and makes no call; the next
\* unpaused quantum goes on from the same t; the run does not return while
\* paused unless exit is set.
C10_AsStated ==
    /\ [][paused =>
            /\ objects' = objects /\ calls' = calls /\ t' = t
            /\ (pc = "if" => pc' = "pause")]_vars
    /\ [](paused => ~InPass)
    /\ [](Terminated /\ paused => exit)

\* C10, amended: the run does not return while paused unless exit is set
\* or t has passed tmax.
C10_Paused ==
    /\ [][paused =>
            /\ objects' = objects /\ calls' = calls /\ t' = t
            /\ (pc = "if" => pc' = "pause")]_vars
    /\ [](paused => ~InPass)
    /\ [](Terminated /\ paused => (exit \/ t > tmax))

\* A quantum has just found the model paused, with model time left.
C10_Witness ==
    pc = "pause" /\ paused /\ quantum = "skip" /\ ~exit /\ t <= tmax

\* Launcher i fires in the step: its count of fired missiles goes up.
Launches(i) ==
    objects'[i].fired_missile_count > objects[i].fired_missile_count

\* C11: a launcher fires only in its own advance, holding no missile (the
\* one it held is destroyed by then) and with last_fire_time None or
\* t >= last_fire_time + rate_of_fire; two successive launches are at tick
\* times t1 < t2 with t2 - t1 >= rate_of_fire; last_fire_time is the tick
\* time of the latest launch: set to t by a launch, changed by nothing else
\* and None exactly as long as nothing was fired.
C11_Cooldown ==
    /\ [][\A i \in SystemIdx :
            /\ Launches(i) =>
                  /\ Advancing(i)
                  /\ objects[i].missile # None =>
                        objects'[objects[i].missile].destroyed
                  /\ \/ objects[i].last_fire_time = None
                     \/ /\ t >= objects[i].last_fire_time
                                 + objects[i].rate_of_fire
                        /\ objects[i].last_fire_time < t
                  /\ objects'[i].last_fire_time = t
                  /\ objects'[i].fired_missile_count
                        = objects[i].fired_missile_count + 1
                  /\ objects'[i].missile = Len(objects) + 1
                  /\ Len(objects') = Len(objects) + 1
            /\ ~Launches(i) =>
                  objects'[i].last_fire_time = objects[i].last_fire_time
         ]_vars
    /\ [](\A i \in SystemIdx :
            (objects[i].last_fire_time = None)
                <=> (objects[i].fired_missile_count = 0))

\* A launcher has just fired for the second time, having had to wait for
\* its cooldown with no missile left: the earlier missile was destroyed
\* more than a tick ago.
C11_Witness ==
    \E i \in SystemIdx :
        /\ LastCall = <<"next", i, t, dt>>
        /\ objects[i].fired_missile_count = 2
        /\ objects[i].last_fire_time = t
        /\ dt < objects[i].rate_of_fire
        /\ \E j \in MissileIdx :
               /\ objects[j].owner = i
               /\ objects[j].name = 0
               /\ objects[j].destroyed
               /\ ~objects[j].exploded

\* The registry when launcher i, being advanced, has dealt with the missile
\* it held.
AfterClear(i) ==
    IF objects[i].missile # None
    THEN clear_missile(range_cut(objects, i), i)
    ELSE objects

\* Launcher i, being advanced, calls fire: it holds no missile, its
\* cooldown is over and it finds a target.
Attempts(i) ==
    /\ Advancing(i)
    /\ AfterClear(i)[i].missile = None
    /\ cooled_down(objects[i], t)
    /\ find_target(AfterClear(i), i) # None

\* The intercept solver has no solution for launcher i and its target.
NoSolution(i) ==
    LET tg == AfterClear(i)[find_target(AfterClear(i), i)]
    IN  firing_direction(objects[i].x, objects[i].missile_vmax, tg.x, tg.v)
            = << >>

\* The solution for launcher i and its target is beyond max_firing_angle.
AngleTooBig(i) ==
    LET tg == AfterClear(i)[find_target(AfterClear(i), i)]
        sol == firing_direction(objects[i].x, objects[i].missile_vmax,
                                tg.x, tg.v)
    IN  /\ sol # << >>
        /\ AngleGT(vec_angle_up(sol[2]), objects[i].max_firing_angle)

\* C12: when fire declines, for want of a solution or because the firing
\* angle is too big, no missile is added to the registry and the launcher's
\* missile, fired_missile_count and last_fire_time stay as they are, so the
\* cooldown condition goes on holding; at every advance in which the
\* launcher holds no missile, its cooldown is over and a target is found,
\* fire is tried anew and launches unless it declines again.
C12_Decline ==
    [][\A i \in SystemIdx :
         Attempts(i) =>
            IF NoSolution(i) \/ AngleTooBig(i)
            THEN /\ Len(objects') = Len(objects)
                 /\ objects'[i].missile = None
                 /\ objects'[i].fired_missile_count
                       = objects[i].fired_missile_count
                 /\ objects'[i].last_fire_time = objects[i].last_fire_time
                 /\ cooled_down(objects'[i], t)
                 /\ \A j \in Indices \ {i} : objects'[j] = AfterClear(i)[j]
            ELSE Launches(i)
      ]_vars

\* A launcher at rest has just been advanced with no missile, its cooldown
\* over and a target in range: fire was called and declined, the target
\* lying beyond the firing angle.
C12_Witness ==
    \E i \in SystemIdx :
        /\ LastCall = <<"next", i, t, dt>>
        /\ objects[i].v = <<0, 0>>
        /\ objects[i].missile = None
        /\ cooled_down(objects[i], t)
        /\ find_target(objects, i) # None
        /\ AngleGT(vec_angle_up(VSub(objects[find_target(objects, i)].x,
                                     objects[i].x)),
                   objects[i].max_firing_angle)

\* Aircraft i, not destroyed, is about to be advanced.
Flying(i) ==
    Advancing(i) /\ objects[i].kind = "Aircraft" /\ ~objects[i].destroyed

\* An EvasionSolution that evade_missile accepts.
Accepted(res) == res.success /\ res.nit > 0

\* dvmax * 0.9 on the grid.
StartOffset(a) == Quot(9 * a.dvmax, 10)

\* The n-th starting point for aircraft a: v0, v0 - dvmax*coeff,
\* v0 + dvmax*coeff.
StartPoint(a, n) ==
    IF n = 1 THEN a.v
    ELSE IF n = 2 THEN <<a.v[1] - StartOffset(a), a.v[2] - StartOffset(a)>>
    ELSE <<a.v[1] + StartOffset(a), a.v[2] + StartOffset(a)>>

\* C13: evade_missile of the optimal evasion controller invokes the solver
\* at most three times, the n-th time on the n-th of the starting points
\* v0, v0 - dvmax*coeff, v0 + dvmax*coeff; every result before the last
\* one was not accepted; if the last one has success = true and nit > 0,
\* the result is SUCCESS and the aircraft's velocity is that result's
\* vector (clipped to vmax by Aircraft.next), and otherwise the result is
\* not SUCCESS.
C13_SolverOrder ==
    [][\A i \in AircraftIdx :
         (Flying(i) /\ objects[i].controller = "OptimalEvasion") =>
            LET log == objects'[i].log
                n == Len(log.invoked)
            IN  /\ n <= 3
                /\ \A k \in 1..n :
                      log.invoked[k][1] = StartPoint(objects[i], k)
                /\ \A k \in 1..(n - 1) : ~Accepted(log.invoked[k][2])
                /\ IF n > 0 /\ Accepted(log.invoked[n][2])
                   THEN /\ log.result = "SUCCESS"
                        /\ ~log.steered
                        /\ objects'[i].v
                             = abs_dir_clip(log.invoked[n][2].v,
                                            objects[i].vmax)
                   ELSE log.result # "SUCCESS"
      ]_vars

\* An aircraft has just been advanced; its solver failed on the first
\* starting point and succeeded on the second one, with a new velocity.
C13_Witness ==
    \E i \in AircraftIdx :
        /\ LastCall = <<"next", i, t, dt>>
        /\ objects[i].log.result = "SUCCESS"
        /\ Len(objects[i].log.invoked) = 2
        /\ objects[i].log.invoked[2][1] # objects[i].log.invoked[1][1]
        /\ objects[i].log.invoked[2][2].v # objects[i].log.invoked[1][1]

\* The velocity v respects the bound vmax in every component.
WithinVmax(v, vmax) == \A j \in 1..Len(v) : Abs(v[j]) <= vmax

\* C14: when the solver was invoked three times and no result had
\* success = true with nit > 0 (a result with success = true and nit = 0
\* counts as a failure), evade_missile returns FAIL, the controller does not
\* steer to the target and leaves the velocity as it was: after the advance
\* it is the old velocity clipped to vmax, the old velocity itself if that
\* was within vmax.  FAIL is returned in no other case.
C14_Fail ==
    [][\A i \in AircraftIdx :
         (Flying(i) /\ objects[i].controller = "OptimalEvasion") =>
            LET log == objects'[i].log
                allFailed == /\ Len(log.invoked) = 3
                             /\ \A k \in 1..3 : ~Accepted(log.invoked[k][2])
            IN  /\ allFailed =>
                      /\ log.result = "FAIL"
                      /\ ~log.steered
                      /\ objects'[i].v
                            = abs_dir_clip(objects[i].v, objects[i].vmax)
                      /\ WithinVmax(objects[i].v, objects[i].vmax) =>
                            objects'[i].v = objects[i].v
                /\ log.result = "FAIL" => allFailed
      ]_vars

\* An aircraft has just been advanced after three solver failures, one of
\* them a success without iterations, and has kept the velocity it moved
\* with although steering to its target asked for a change.
C14_Witness ==
    \E i \in AircraftIdx :
        /\ LastCall = <<"next", i, t, dt>>
        /\ objects[i].log.result = "FAIL"
        /\ \E k \in 1..3 : /\ objects[i].log.invoked[k][2].success
                            /\ objects[i].log.invoked[k][2].nit = 0
        /\ objects[i].v = objects[i].log.invoked[1][1]
        /\ abs_dir_clip(
               VSub(VSub(objects[i].target,
                         VSub(objects[i].x, VScale(dt, objects[i].v))),
                    objects[i].v),
               objects[i].dvmax) # <<0, 0>>

\* The missiles of the registry that are not destroyed.
LiveMissiles == {j \in MissileIdx : ~objects[j].destroyed}

\* The velocity evade_missile left to an aircraft with velocity v.
EvadedVelocity(v, log) ==
    IF log.result = "SUCCESS" THEN log.invoked[Len(log.invoked)][2].v ELSE v

\* v + clamp(target - x - v, dvmax)
Steered(a, v) ==
    VAdd(v, abs_dir_clip(VSub(VSub(a.target, a.x), v), a.dvmax))

\* C15: the controller of a non-destroyed aircraft hands to evade_missile
\* a non-destroyed missile of the registry that no other one is nearer
\* than, none if there is none; it steers, v <- v + clamp(target - x - v,
\* dvmax), exactly when a target is configured and there is no such missile
\* or evade_missile returned NO_THREAT; the advance then clips v to vmax,
\* moves x by v*dt and leaves destroyed as it is.
C15_ControllerStep ==
    [][\A i \in AircraftIdx :
         Flying(i) =>
            LET a == objects[i]
                log == objects'[i].log
                vev == EvadedVelocity(a.v, log)
                vc == IF log.steered THEN Steered(a, vev) ELSE vev
            IN  /\ IF LiveMissiles = {}
                   THEN log.missile = None /\ log.result = "None"
                   ELSE /\ log.missile \in LiveMissiles
                        /\ log.result # "None"
                        /\ \A j \in LiveMissiles :
                               sqdist(a.x, objects[log.missile].x)
                                   <= sqdist(a.x, objects[j].x)
                /\ log.steered <=>
                      /\ a.target # << >>
                      /\ LiveMissiles = {} \/ log.result = "NO_THREAT"
                /\ objects'[i].v = abs_dir_clip(vc, a.vmax)
                /\ objects'[i].x = VAdd(a.x, VScale(dt, objects'[i].v))
                /\ objects'[i].destroyed = a.destroyed
      ]_vars

\* An aircraft has just been advanced; of two non-destroyed missiles its
\* controller took the nearer one, which is the later one in the registry,
\* found it to be no threat and steered to the target.
C15_Witness ==
    \E i \in AircraftIdx :
        LET xpre == VSub(objects[i].x, VScale(dt, objects[i].v))
            m == objects[i].log.missile
        IN  /\ LastCall = <<"next", i, t, dt>>
            /\ ~objects[i].destroyed
            /\ m # None
            /\ objects[i].log.result = "NO_THREAT"
            /\ objects[i].log.steered
            /\ \E j \in LiveMissiles :
                   /\ j < m
                   /\ sqdist(xpre, objects[j].x) > sqdist(xpre, objects[m].x)

\* The time of closest approach of aircraft a and missile m under their
\* current velocities is negative: the relative velocity is not zero and
\* the two are moving apart.
ApproachInPast(a, m) ==
    /\ VSub(a.v, m.v) # <<0, 0>>
    /\ Dot(VSub(a.v, m.v), VSub(a.x, m.x)) > 0

FracLE(p, q) == p[1] * q[2] <= q[1] * p[2]

\* The bound on component j in a call of abs_dir_clip.
ClipBound(j) ==
    IF Len(call.args[2]) = 1 THEN call.args[2][1] ELSE call.args[2][j]

\* The scales k <= 1 with k*|x_i| <= xmax_i for every component i, among 1
\* and the quotients xmax_i/|x_i|; the largest scale of that kind is 1 or
\* one of the quotients.
ClipScales ==
    LET x == call.args[1]
        cand == {<<1, 1>>}
                \cup {<<ClipBound(j), Abs(x[j])>> :
                        j \in {i \in 1..Len(x) : x[i] # 0}}
    IN  {k \in cand :
            /\ k[1] <= k[2]
            /\ \A i \in 1..Len(x) : k[1] * Abs(x[i]) <= ClipBound(i) * k[2]}

LargestClipScale ==
    CHOOSE k \in ClipScales : \A h \in ClipScales : FracLE(h, k)

\* C17: for a vector x and non-negative bounds, one number or one per
\* component, abs_dir_clip returns k*x (rounded toward zero on the grid)
\* for the largest scale k <= 1 with k*|x_i| <= xmax_i for every i; every
\* component of the result respects its bound, has the sign of the
\* component of x and is no longer than it; the call returns for every x,
\* zero components included.
C17_AbsDirClip ==
    /\ [](call.fn = "abs_dir_clip" /\ call.done =>
            LET x == call.args[1]
                k == LargestClipScale
            IN  /\ ClipScales # {}
                /\ Len(call.out) = Len(x)
                /\ \A j \in 1..Len(x) :
                      /\ call.out[j] = Quot(k[1] * x[j], k[2])
                      /\ Abs(call.out[j]) <= ClipBound(j)
                      /\ Abs(call.out[j]) <= Abs(x[j])
                      /\ call.out[j] * x[j] >= 0)
    /\ [][call.fn = "abs_dir_clip" /\ ~call.done => call'.done]_vars

\* abs_dir_clip has scaled down a vector with a zero component and two
\* components beyond their bound, the bound of the last one deciding.
C17_Witness ==
    /\ call.fn = "abs_dir_clip"
    /\ call.done
    /\ call.args[1] = <<0, 5, -6>>
    /\ call.args[2] = <<3>>
    /\ call.out = <<0, 2, -3>>

\* The arguments of a call of firing_direction and what it computes first.
FdOffset == VSub(call.args[3], call.args[1])
FdSpeed == call.args[2][1]
FdTargetV == call.args[4]
FdDiscriminant ==
    LET cr == FdOffset[1] * FdTargetV[2] - FdOffset[2] * FdTargetV[1]
    IN  FdSpeed * FdSpeed * Dot(FdOffset, FdOffset) - cr * cr
FdRoots ==
    firing_solutions(call.args[1], FdSpeed, call.args[3], FdTargetV)

\* The roots with a strictly positive time.
FdPositive == {n \in 1..2 : FdRoots[n][1][1] > 0}

\* C18: firing_direction returns None exactly when the target is at the
\* gun position, the discriminant is negative or neither root has t > 0;
\* otherwise it returns one of the two roots (t, v), one with t > 0 that no
\* root with t > 0 has a smaller time than.
C18_SmallestPositive ==
    [](call.fn = "firing_direction" /\ call.done =>
        IF \/ FdOffset = <<0, 0>>
           \/ FdDiscriminant < 0
           \/ FdPositive = {}
        THEN call.out = << >>
        ELSE /\ \E n \in FdPositive : call.out = FdRoots[n]
             /\ \A n \in FdPositive : ~FracLT(FdRoots[n][1], call.out[1]))

\* firing_direction has returned the second root: both roots have t > 0
\* and the second one is the earlier one.
C18_Witness ==
    /\ call.fn = "firing_direction"
    /\ call.done
    /\ call.out # << >>
    /\ FdPositive = {1, 2}
    /\ FracLT(FdRoots[2][1], FdRoots[1][1])
    /\ call.out = FdRoots[2]

\* The time n/m of a returned solution is a number, not the IEEE infinity
\* of a division by 0.0.
FdFinite(sol) == sol[1][2] > 0

\* gun_x + v*t = targ_x + targ_v*t for the solution's time t = n/m, in the
\* form m*(targ_x - gun_x) = (v - targ_v)*n, up to the rounding of the
\* grid: less than two units on a component of v and less than one unit on
\* the square root in n.
FdMeets(sol) ==
    \A j \in 1..2 :
        Abs(sol[1][2] * FdOffset[j] - (sol[2][j] - FdTargetV[j]) * sol[1][1])
            <= 2 * sol[1][1] + FdSpeed + Abs(FdTargetV[j])

\* |v| = proj_speed, up to the rounding of the components of v.
FdAtSpeed(sol) ==
    /\ Dot(sol[2], sol[2]) <= (FdSpeed + 3) * (FdSpeed + 3)
    /\ Dot(sol[2], sol[2]) >= (FdSpeed - 3) * (FdSpeed - 3)

\* C19: whenever firing_direction returns a solution (t, v), projectile
\* and target meet at time t, gun_x + v*t = targ_x + targ_v*t, and the
\* projectile velocity v has magnitude proj_speed.
C19_AsStated ==
    [](call.fn = "firing_direction" /\ call.done /\ call.out # << >> =>
        /\ FdFinite(call.out)
        /\ FdMeets(call.out)
        /\ FdAtSpeed(call.out))

\* C20: for a target at rest at offset d # 0 from the gun and a projectile
\* speed s > 0, firing_direction returns t = |d|/s and v = s*d/|d|: the
\* time is n/s^2 with n the root of s^2*|d|^2 rounded down, every
\* component of v has the sign of the component of d and is s*d_j/|d|
\* rounded toward zero; when |d| is a whole number r, t = r/s exactly and
\* v_j is s*d_j/r rounded toward zero; gun (0,0), speed 10 and target
\* (10,0) give t = 1 and v = (10,0).
C20_TargetAtRest ==
    [](/\ call.fn = "firing_direction"
       /\ call.done
       /\ FdTargetV = <<0, 0>>
       /\ FdOffset # <<0, 0>>
       /\ FdSpeed > 0
       => LET dsq == Dot(FdOffset, FdOffset)
              r == sqrt(dsq)
          IN  /\ call.out # << >>
              /\ call.out[1][2] = FdSpeed * FdSpeed
              /\ call.out[1][1] * call.out[1][1] <= FdSpeed * FdSpeed * dsq
              /\ (call.out[1][1] + 1) * (call.out[1][1] + 1)
                    > FdSpeed * FdSpeed * dsq
              /\ \A j \in 1..2 :
                    /\ call.out[2][j] * FdOffset[j] >= 0
                    /\ Abs(FdOffset[j] * call.out[1][1]
                           - call.out[2][j] * dsq) < dsq
              /\ r * r = dsq =>
                    /\ call.out[1][1] * FdSpeed = r * call.out[1][2]
                    /\ \A j \in 1..2 :
                          call.out[2][j] = Quot(FdSpeed * FdOffset[j], r)
              /\ (call.args[1] = <<0, 0>> /\ FdSpeed = 10
                  /\ call.args[3] = <<10, 0>>) =>
                    call.out = <<<<100, 100>>, <<10, 0>>>>)

\* firing_direction has been called with gun (0,0), speed 10 and a target
\* at rest at (10,0) and has returned t = 1, v = (10,0).
C20_Witness ==
    /\ call.fn = "firing_direction"
    /\ call.done
    /\ call.args = <<<<0, 0>>, <<10>>, <<10, 0>>, <<0, 0>>>>
    /\ call.out[1][1] = call.out[1][2]
    /\ call.out[2] = <<10, 0>>

\* The squared distance, as a fraction, of the points of a call of
\* tmindist or sqmindist at the time p/q, each moving at its velocity.
SqDistAt(tm) ==
    LET dx == VSub(call.args[1], call.args[3])
        dv == VSub(call.args[2], call.args[4])
    IN  <<tm[2] * tm[2] * Dot(dx, dx) + 2 * tm[1] * tm[2] * Dot(dv, dx)
            + tm[1] * tm[1] * Dot(dv, dv),
          tm[2] * tm[2]>>

FracEq(p, q) == p[1] * q[2] = q[1] * p[2]

\* Times before, at and after 0 to compare the minimum with.
OtherTimes == {<<p, q>> : p \in -6..6, q \in 1..3}

\* C21: sqmindist is the squared distance of the two points at the time
\* tmindist, and at no other time is the distance smaller; for equal
\* velocities tmindist returns 0 and sqmindist returns |x1 - x2|^2, 25 for
\* x1 = (0,0), x2 = (5,0).
C21_ClosestApproach ==
    /\ [](call.fn = "sqmindist" /\ call.done =>
            LET tm == tmindist(call.args[1], call.args[2],
                               call.args[3], call.args[4])
            IN  /\ call.out[2] > 0
                /\ FracEq(call.out, SqDistAt(tm))
                /\ \A o \in OtherTimes : FracLE(call.out, SqDistAt(o))
                /\ call.args[2] = call.args[4] =>
                      /\ FracEq(call.out,
                                <<sqdist(call.args[1], call.args[3]), 1>>)
                      /\ (call.args[1] = <<0, 0>>
                          /\ call.args[3] = <<5, 0>>) =>
                            FracEq(call.out, <<25, 1>>))
    /\ [](call.fn = "tmindist" /\ call.done =>
            /\ call.out[2] > 0
            /\ \A o \in OtherTimes : FracLE(SqDistAt(call.out), SqDistAt(o))
            /\ call.args[2] = call.args[4] => call.out[1] = 0)

\* sqmindist has been called on two points that are nearest to each other
\* at a time after 0, nearer than they are at time 0 and not touching.
C21_Witness ==
    /\ call.fn = "sqmindist"
    /\ call.done
    /\ call.args[2] # call.args[4]
    /\ tmindist(call.args[1], call.args[2], call.args[3], call.args[4])[1] > 0
    /\ call.out[1] > 0
    /\ FracLT(call.out, <<sqdist(call.args[1], call.args[3]), 1>>)

\* The target launcher i, being advanced, fires at.
FireTarget(i) == AfterClear(i)[find_target(AfterClear(i), i)]

\* Launcher i calls fire and firing_direction gets as far as its
\* divisions: the target is away from the gun and the discriminant is not
\* negative.
FireDivides(i) ==
    /\ Attempts(i)
    /\ FireTarget(i).x # objects[i].x
    /\ LET d == VSub(FireTarget(i).x, objects[i].x)
           cr == d[1] * FireTarget(i).v[2] - d[2] * FireTarget(i).v[1]
       IN  objects[i].missile_vmax * objects[i].missile_vmax * Dot(d, d)
               - cr * cr >= 0

\* C22: no computation of a tick divides by zero.  The denominators are
\* those of the two clips of an aircraft's velocity in abs_dir_clip, of
\* tmindist and sqmindist for the missile an optimal evasion controller
\* looks at, and of the two times of flight in firing_direction,
\* vt1^2 + vt2^2 - proj_speed^2.
C22_AsStated ==
    [][/\ \A i \in AircraftIdx :
            Flying(i) =>
               LET a == objects[i]
                   log == objects'[i].log
                   vev == EvadedVelocity(a.v, log)
                   vc == IF log.steered THEN Steered(a, vev) ELSE vev
               IN  /\ abs_dir_clip_k(VSub(VSub(a.target, a.x), vev),
                                     <<a.dvmax, a.dvmax>>, 1, <<1, 1>>)[2] > 0
                   /\ abs_dir_clip_k(vc, <<a.vmax, a.vmax>>, 1,
                                     <<1, 1>>)[2] > 0
                   /\ (a.controller = "OptimalEvasion"
                       /\ log.missile # None) =>
                         /\ tmindist(a.x, a.v, objects[log.missile].x,
                                     objects[log.missile].v)[2] > 0
                         /\ sqmindist(a.x, a.v, objects[log.missile].x,
                                      objects[log.missile].v)[2] > 0
       /\ \A i \in SystemIdx :
            FireDivides(i) =>
               \A n \in 1..2 :
                   firing_solutions(objects[i].x, objects[i].missile_vmax,
                                    FireTarget(i).x,
                                    FireTarget(i).v)[n][1][2] > 0
      ]_vars

\* C23: a moving launcher is rejected before the intercept solver is used:
\* whenever a launcher with a non-zero velocity calls fire, it obtains no
\* firing solution from firing_direction.
C23_AsStated ==
    [][\A i \in SystemIdx :
         (Attempts(i) /\ objects[i].v # <<0, 0>>) => NoSolution(i)]_vars

\* The non-destroyed aircraft within the firing range of launcher i, being
\* advanced.
InRange(i) ==
    {j \in AircraftIdx :
        /\ ~objects[j].destroyed
        /\ sqdist(objects[i].x, objects[j].x)
              <= objects[i].firing_range * objects[i].firing_range}

\* The first of them in the order of the registry.
FirstInRange(i) == CHOOSE j \in InRange(i) : \A k \in InRange(i) : j <= k

\* fire of launcher i declines for the aircraft j.
DeclinesFor(i, j) ==
    LET sol == firing_direction(objects[i].x, objects[i].missile_vmax,
                                objects[j].x, objects[j].v)
    IN  \/ sol = << >>
        \/ AngleGT(vec_angle_up(sol[2]), objects[i].max_firing_angle)

\* C24: a launcher that fires does so at the first aircraft of the
\* registry that is not destroyed and within firing_range, a nearer later
\* one notwithstanding, and that aircraft is not destroyed at the launch;
\* when a launcher with no missile and its cooldown over finds fire to
\* decline for that first aircraft, it launches nothing in the tick.
C24_FirstInRange ==
    [][\A i \in SystemIdx :
         /\ Launches(i) =>
               /\ InRange(i) # {}
               /\ objects'[Len(objects')].kind = "Missile"
               /\ objects'[Len(objects')].owner = i
               /\ objects'[Len(objects')].target = FirstInRange(i)
               /\ ~objects[FirstInRange(i)].destroyed
               /\ ~DeclinesFor(i, FirstInRange(i))
         /\ (/\ Attempts(i)
             /\ InRange(i) # {}
             /\ DeclinesFor(i, FirstInRange(i))) =>
               /\ ~Launches(i)
               /\ Len(objects') = Len(objects)
      ]_vars

\* A launcher has just fired at the first aircraft in its range while a
\* later aircraft, not destroyed, is nearer to it.
C24_Witness ==
    \E i \in SystemIdx :
        /\ LastCall = <<"next", i, t, dt>>
        /\ objects[i].last_fire_time = t
        /\ objects[i].missile = Len(objects)
        /\ \E j \in AircraftIdx :
               /\ j > objects[Len(objects)].target
               /\ j < i
               /\ ~objects[j].destroyed
               /\ sqdist(objects[i].x, objects[j].x)
                     < sqdist(objects[i].x,
                              objects[objects[Len(objects)].target].x)

\* The missile launcher i holds is farther from it than firing_range.
BeyondRange(i) ==
    sqdist(objects[i].x, objects[objects[i].missile].x)
        > objects[i].firing_range * objects[i].firing_range

\* C25: in the advance of a launcher holding a missile: a missile farther
\* away than firing_range is self-destructed, destroyed and at rest where
\* it is, its exploded flag as before; a missile that is destroyed, by
\* this or by any earlier cause, is no longer the launcher's missile after
\* the advance, and the launcher fires a new one in the same advance if
\* its cooldown is over and fire does not decline for the first aircraft
\* in range; a missile in range and not destroyed stays the launcher's
\* missile, untouched, and nothing is fired.
C25_RangeCut ==
    [][\A i \in SystemIdx :
         (Advancing(i) /\ objects[i].missile # None) =>
            LET m == objects[i].missile
            IN  /\ BeyondRange(i) =>
                      /\ objects'[m].destroyed
                      /\ objects'[m].v = <<0, 0>>
                      /\ objects'[m].x = objects[m].x
                      /\ objects'[m].exploded = objects[m].exploded
                /\ (BeyondRange(i) \/ objects[m].destroyed) =>
                      /\ objects'[i].missile # m
                      /\ objects'[i].missile = None \/ Launches(i)
                      /\ (/\ cooled_down(objects[i], t)
                          /\ InRange(i) # {}
                          /\ ~DeclinesFor(i, FirstInRange(i))) =>
                            /\ Launches(i)
                            /\ objects'[i].missile = Len(objects) + 1
                /\ (~BeyondRange(i) /\ ~objects[m].destroyed) =>
                      /\ objects'[i].missile = m
                      /\ objects'[m] = objects[m]
                      /\ ~Launches(i)
      ]_vars

\* A launcher that fires every tick has just fired again; the missile it
\* fired before lies destroyed, not exploded, inside the world and beyond
\* the firing range: the launcher has cut it and replaced it in one
\* advance.
C25_Witness ==
    \E i \in SystemIdx :
        /\ LastCall = <<"next", i, t, dt>>
        /\ objects[i].rate_of_fire = dt
        /\ objects[i].last_fire_time = t
        /\ objects[i].missile = Len(objects)
        /\ \E j \in MissileIdx :
               /\ objects[j].owner = i
               /\ objects[j].name = objects[i].fired_missile_count - 2
               /\ objects[j].destroyed
               /\ ~objects[j].exploded
               /\ ~OutOfBounds(objects[j].x)
               /\ sqdist(objects[i].x, objects[j].x)
                     > objects[i].firing_range * objects[i].firing_range

\* C26: a destroyed missile keeps its position, velocity, exploded and
\* destroyed flags in every step; the registry never loses an object and
\* every object keeps its index; the advance of a destroyed missile
\* changes no other object, so it neither explodes nor destroys its
\* target; and when a pass is over every destroyed missile has been
\* erased, drawn and advanced once in it.
C26_Inert ==
    /\ [][\A j \in MissileIdx :
            objects[j].destroyed =>
               /\ j <= Len(objects')
               /\ objects'[j].kind = "Missile"
               /\ objects'[j].destroyed
               /\ objects'[j].x = objects[j].x
               /\ objects'[j].v = objects[j].v
               /\ objects'[j].exploded = objects[j].exploded
               /\ objects'[j].target = objects[j].target
               /\ objects'[j].owner = objects[j].owner
               /\ objects'[j].name = objects[j].name]_vars
    /\ [][/\ Len(objects') >= Len(objects)
          /\ \A j \in Indices : objects'[j].kind = objects[j].kind]_vars
    /\ [][\A j \in MissileIdx :
            (Advancing(j) /\ objects[j].destroyed) => objects' = objects]_vars
    /\ [](pc = "pause" /\ quantum = "tick" =>
            \A j \in MissileIdx :
               objects[j].destroyed =>
                  /\ CallCount("erase", j) = 1
                  /\ CallCount("draw", j) = 1
                  /\ CallCount("next", j) = 1)

\* A missile that was destroyed without exploding has just been advanced
\* within explosion range of its target, and the target is not destroyed.
C26_Witness ==
    \E j \in MissileIdx :
        /\ LastCall = <<"next", j, t, dt>>
        /\ objects[j].destroyed
        /\ ~objects[j].exploded
        /\ ~objects[objects[j].target].destroyed
        /\ distLE(objects[j].x, objects[objects[j].target].x,
                  objects[j].explosion_range)

\* C27 as stated: over the advance of a non-destroyed aircraft whose
\* velocity components are all within vmax, no velocity component changes
\* by more than dvmax.
C27_AsStated ==
    [][\A i \in AircraftIdx :
         (/\ Advancing(i)
          /\ ~objects[i].destroyed
          /\ WithinVmax(objects[i].v, objects[i].vmax)) =>
            \A j \in 1..Len(objects[i].v) :
               Abs(objects'[i].v[j] - objects[i].v[j]) <= objects[i].dvmax
      ]_vars

\* The bounds of a call of abs_dir_clip, one per component.
ClipBoundVec == [j \in 1..Len(call.args[1]) |-> ClipBound(j)]

\* The factor k of the call's scan after its first p components.
ClipScanK(p) ==
    abs_dir_clip_k(SubSeq(call.args[1], 1, p), SubSeq(ClipBoundVec, 1, p),
                   1, <<1, 1>>)

\* min(1, min over the components x_i # 0 of xmax_i/|x_i|)
ClipMinScale ==
    LET x == call.args[1]
        cand == {<<1, 1>>}
                \cup {<<ClipBound(j), Abs(x[j])>> :
                        j \in {i \in 1..Len(x) : x[i] # 0}}
    IN  CHOOSE m \in cand : \A h \in cand : FracLE(m, h)

\* Vector y with its components in the order perm.
Permuted(y, perm) == [j \in 1..Len(y) |-> y[perm[j]]]

\* C28: in a call of abs_dir_clip with non-negative bounds the factor k
\* never increases from one scanned component to the next, the factor
\* after the last component is min(1, min over the components x_i # 0 of
\* xmax_i/|x_i|), and abs_dir_clip of x and xmax with their components
\* permuted together is the result with its components permuted the same
\* way.
C28_ScanOrder ==
    [](call.fn = "abs_dir_clip" /\ call.done =>
         LET x == call.args[1]
             n == Len(call.args[1])
         IN  /\ \A p \in 1..n : FracLE(ClipScanK(p), ClipScanK(p - 1))
             /\ FracEq(ClipScanK(n), ClipMinScale)
             /\ call.out = [j \in 1..n |->
                               Quot(ClipScanK(n)[1] * x[j], ClipScanK(n)[2])]
             /\ \A perm \in Permutations(1..n) :
                   abs_dir_clip_vec(Permuted(x, perm),
                                    Permuted(ClipBoundVec, perm))
                     = Permuted(call.out, perm))

\* abs_dir_clip has clipped a vector whose components are beyond their
\* bounds by different factors, the first one by the smaller factor, so
\* that the scan takes its factor from the first component in this order
\* and lowers it twice in the opposite order.
C28_Witness ==
    /\ call.fn = "abs_dir_clip"
    /\ call.done
    /\ call.args[1] = <<-6, 5>>
    /\ call.args[2] = <<1, 4>>
    /\ call.out = <<-1, 0>>
    /\ ClipScanK(1) = <<1, 6>>
    /\ ClipScanK(2) = <<1, 6>>
    /\ abs_dir_clip_k(<<5, -6>>, <<4, 1>>, 1, <<1, 1>>) = <<1, 6>>
    /\ abs_dir_clip_k(<<5, -6>>, <<4, 1>>, 2, <<1, 1>>) = <<1, 6>>
    /\ abs_dir_clip_k(<<5>>, <<4>>, 1, <<1, 1>>) = <<4, 5>>

\* The missiles of the registry that launcher i has fired.
OwnMissiles(i) == {j \in MissileIdx : objects[j].owner = i}

\* C29: in every state the fired_missile_count of a launcher is the
\* number of missiles in the registry it owns, and their names are the
\* numbers below the count, each once; in every step the count stays or
\* goes up by one, and it goes up exactly when the launcher, being
\* advanced, appends a missile of its own, named by the count before.
C29_Count ==
    /\ [](\A i \in SystemIdx :
            /\ objects[i].fired_missile_count = Cardinality(OwnMissiles(i))
            /\ {objects[j].name : j \in OwnMissiles(i)}
                  = 0..(objects[i].fired_missile_count - 1)
            /\ \A j, k \in OwnMissiles(i) :
                  j # k => objects[j].name # objects[k].name)
    /\ [][\A i \in SystemIdx :
            /\ objects'[i].fired_missile_count
                  \in {objects[i].fired_missile_count,
                       objects[i].fired_missile_count + 1}
            /\ (objects'[i].fired_missile_count
                   = objects[i].fired_missile_count + 1)
                <=> (/\ Advancing(i)
                     /\ Len(objects') = Len(objects) + 1
                     /\ objects'[Len(objects')].kind = "Missile"
                     /\ objects'[Len(objects')].owner = i
                     /\ objects'[Len(objects')].name
                           = objects[i].fired_missile_count)
         ]_vars

\* A launcher has just fired a missile while another launcher has a
\* missile of its own in the registry, so that two missiles of the
\* registry bear the same number.
C29_Witness ==
    \E i, k \in SystemIdx :
        /\ i # k
        /\ LastCall = <<"next", i, t, dt>>
        /\ objects[i].last_fire_time = t
        /\ objects[i].fired_missile_count >= 1
        /\ objects[k].fired_missile_count >= 1
        /\ \E j \in OwnMissiles(i), h \in OwnMissiles(k) :
               objects[j].name = objects[h].name

\* Position x lies within [xlb, xub] on every axis.
InWorld(x) == \A k \in 1..Len(x) : xlb[k] <= x[k] /\ x[k] <= xub[k]

\* C30: when a pass is over, every missile of the registry that is not
\* destroyed lies within [xlb, xub] on both axes, and so does every
\* missile that is not destroyed right after its own advance; a missile
\* fired during the pass has been advanced once in it.
C30_InBounds ==
    /\ (pc = "pause" /\ quantum = "tick") =>
          \A j \in MissileIdx :
             /\ ~objects[j].destroyed => InWorld(objects[j].x)
             /\ FiredInPass(j) => CallCount("next", j) = 1
    /\ \A j \in MissileIdx :
          (LastCall = <<"next", j, t, dt>> /\ ~objects[j].destroyed) =>
             InWorld(objects[j].x)

\* A pass is over in which a launcher outside the world fired a missile;
\* the missile has been advanced once, has come into the world and is not
\* destroyed.
C30_Witness ==
    /\ pc = "pause"
    /\ quantum = "tick"
    /\ \E j \in MissileIdx :
          /\ FiredInPass(j)
          /\ CallCount("next", j) = 1
          /\ ~objects[j].destroyed
          /\ InWorld(objects[j].x)
          /\ ~InWorld(VSub(objects[objects[j].owner].x,
                           VScale(dt, objects[objects[j].owner].v)))

\* The projectile of a call of firing_direction is strictly faster than
\* the target.
FdFaster == FdSpeed * FdSpeed > Dot(FdTargetV, FdTargetV)

\* C31: whenever proj_speed is strictly greater than the target's speed
\* and the target is not at the gun position, firing_direction returns a
\* solution and not None, the discriminant is not negative, exactly one
\* of the two roots has t > 0 and the solution returned is that root.
C31_FasterProjectile ==
    []((/\ call.fn = "firing_direction"
        /\ call.done
        /\ FdFaster
        /\ FdOffset # <<0, 0>>) =>
            /\ call.out # << >>
            /\ FdDiscriminant >= 0
            /\ Cardinality(FdPositive) = 1
            /\ \A n \in FdPositive : call.out = FdRoots[n]
            /\ FracPos(call.out[1])
            /\ FdFinite(call.out))

\* firing_direction has returned a solution for a moving target nearly as
\* fast as the projectile and coming nearer the gun: the first root lies
\* in the past, the second one is returned.
C31_Witness ==
    /\ call.fn = "firing_direction"
    /\ call.done
    /\ FdFaster
    /\ FdSpeed = 10
    /\ FdTargetV = <<-6, 5>>
    /\ Dot(FdOffset, FdTargetV) < 0
    /\ FdPositive = {2}
    /\ call.out = FdRoots[2]

\* Missile j explodes in this step.
Explodes(j) == ~objects[j].exploded /\ objects'[j].exploded

\* C32: a missile explodes only in its own advance, within explosion
\* range of its target and not destroyed before; in that step its
\* position does not change, wherever it is, its velocity becomes zero,
\* it is destroyed and stays exploded, and its target is destroyed.
C32_ExplodesInPlace ==
    [][\A j \in MissileIdx :
         Explodes(j) =>
            /\ Advancing(j)
            /\ ~objects[j].destroyed
            /\ distLE(objects[j].x, objects[objects[j].target].x,
                      objects[j].explosion_range)
            /\ objects'[j].x = objects[j].x
            /\ objects'[j].v = <<0, 0>>
            /\ objects'[j].destroyed
            /\ objects'[objects[j].target].destroyed
            /\ distLE(objects'[j].x, objects'[objects[j].target].x,
                      objects[j].explosion_range)
      ]_vars

\* A missile fired in this pass by a launcher outside the world has just
\* exploded in its first advance: it lies exploded outside the world,
\* where it was fired.
C32_Witness ==
    \E j \in MissileIdx :
        /\ LastCall = <<"next", j, t, dt>>
        /\ FiredInPass(j)
        /\ objects[j].exploded
        /\ objects[j].destroyed
        /\ ~InWorld(objects[j].x)
        /\ objects[j].x = VSub(objects[objects[j].owner].x,
                               VScale(dt, objects[objects[j].owner].v))

====
